---- MODULE Spec2Model ----
\* vite-plugin-electron, src/index.ts: the dev-server plugin (configureServer,
\* the per-entry ':startup' closeBundle hook) and the process controller
\* (startup, startup.exit, startup.hookedProcessExit).
\*
\* JavaScript runs one callback at a time; an async function is suspended at
\* each await, and other callbacks run in between.  Every action below is one
\* such uninterrupted piece of code.
EXTENDS Integers, Sequences, FiniteSets, TLC

\* ---------------------------------------------------------------- bounds
MaxEntries == 2        \* entries in optionsArray
MaxEvents == 3         \* calls from outside in one session: closeBundle hooks
                       \* run by the bundler, and startup, reload and
                       \* startup.exit called by user code
MaxChildren == 2       \* child processes spawned in one session

\* ---------------------------------------------------------------- values
NoChild == 0           \* process.electronApp is undefined
NullCode == 0 - 1      \* the `code` of an 'exit' event of a signal-killed child
ExitCodes == {0, 7}    \* exit codes a child may return on its own
NotExited == 0 - 2     \* the host process is running
HostOwnCode == 1       \* the code of a host exit that no child caused

Slots == 1 .. MaxEvents
Children == 1 .. MaxChildren

VARIABLES
  optionsArray,        \* <<[onstart |-> BOOLEAN], ...>>
  treeKillInstalled,   \* whether import('tree-kill') can succeed
  listening,           \* the httpServer 'listening' callback has run
  envUrl,              \* process.env.VITE_DEV_SERVER_URL is set
  watching,            \* indexes of optionsArray whose build() was started
  entryCount,
  closeBundleCount,
  electronApp,         \* process.electronApp: NoChild or a child id
  child,               \* per spawned child: liveness, listeners, signals
  hookedProcessExit,   \* startup.hookedProcessExit
  exitHooks,           \* number of process.once('exit', ...) installations
  hostExit,            \* NotExited, or the exit code of the host process
  calls,               \* the suspended startup() / startup.exit() calls
  started,             \* number of startup() / startup.exit() calls so far
  events,              \* number of calls from outside so far
  caps,                \* what onstart has been handed so far
  wsSent,              \* number of { type: 'full-reload' } messages sent
  advisories,          \* number of "Please install tree-kill" lines logged
  hist                 \* observations of the latest steps (history only)

vars == <<optionsArray, treeKillInstalled, listening, envUrl, watching,
          entryCount, closeBundleCount, electronApp, child, hookedProcessExit,
          exitHooks, hostExit, calls, started, events, caps, wsSent,
          advisories, hist>>

\* ---------------------------------------------------------------- helpers
hostExited == hostExit # NotExited

\* calcEntryCount(optionsArray), ./utils: the number of configured entries;
\* every element of optionsArray configures one entry here.
calcEntryCount(arr) == Len(arr)

\* fault variant of ProcessExit: the child's code is dropped
ProcessExitPlain(code) == 0

\* process.exit(code): a null or undefined code exits with process.exitCode,
\* which nothing in this program sets, so with 0.
ProcessExit(code) == IF code = NullCode THEN 0 ELSE code

\* fault variant of RemoveAllListeners: the listeners stay on the handle
KeepListeners(ch, c) == ch

\* ChildProcess.removeAllListeners()
RemoveAllListeners(ch, c) == [ch EXCEPT ![c].listeners = FALSE]

\* fault variant of DirectKill: the fallback sends no signal
DirectKillOmitted(ch, c) == ch

\* ChildProcess.kill(): sends SIGTERM; the child dies later, if it dies
DirectKill(ch, c) ==
  [ch EXCEPT ![c].signalled = @ \/ ch[c].alive, ![c].kills = @ + 1]

\* tree-kill's SIGKILL reaching the process: it is dead at once
SigKill(ch, c) ==
  [ch EXCEPT ![c].alive = FALSE, ![c].signalled = @ \/ ch[c].alive,
             ![c].listeners = FALSE, ![c].kills = @ + 1]

\* the handler of process.once('exit') (lines 134-138) as far as it runs: the
\* host is gone once the 'exit' listeners return, so the async handler runs up
\* to its first await, which is the synchronous part of startup.exit()
\* (lines 143-150); line 137 is never reached
ExitHandler(ch) ==
  IF hookedProcessExit /\ electronApp # NoChild
  THEN RemoveAllListeners(ch, electronApp)
  ELSE ch

\* The suspended calls have no identity in the program: they are kept as a
\* sequence in a fixed order, so that two states that differ only in the
\* order in which the calls were made are one state.
RemoveAt(seq, n) == [j \in 1 .. Len(seq) - 1 |-> IF j < n THEN seq[j] ELSE seq[j + 1]]

PcRank(pc) == CASE pc = "imports" -> 0 [] pc = "exImport" -> 1
                [] pc = "exKilling" -> 2 [] OTHER -> 3

Rank(k) == (((IF k.kind = "startup" THEN 0 ELSE 1) * 4 + PcRank(k.pc))
              * (MaxChildren + 1) + k.prev) * (MaxChildren + 1) + k.target

Put(seq, k) ==
  LET before == Cardinality({j \in DOMAIN seq : Rank(seq[j]) <= Rank(k)})
  IN  [j \in 1 .. Len(seq) + 1 |->
         IF j <= before THEN seq[j] ELSE IF j = before + 1 THEN k ELSE seq[j - 1]]

Replace(seq, n, k) == Put(RemoveAt(seq, n), k)

NewCall(kind) == [kind |-> kind, pc |-> "imports", prev |-> NoChild, target |-> NoChild]

\* fault variant of ExitSyncCall: the test of line 143 is missing
ExitSyncCallUnguarded(k) == [k EXCEPT !.pc = "exImport", !.prev = electronApp]

\* startup.exit() up to the promise it returns, lines 143-150: what the
\* calling record k becomes, and the children
ExitSyncCall(k) ==
  IF electronApp = NoChild
  THEN [k EXCEPT !.pc = "exSettled"]
  ELSE [k EXCEPT !.pc = "exImport", !.prev = electronApp]

ExitSyncChild ==
  IF electronApp = NoChild
  THEN child
  ELSE [RemoveAllListeners(child, electronApp) EXCEPT ![electronApp].stops = @ + 1]

\* fault variant of Settle: resolve is not called, the promise stays pending
SettleDropped(cs, n) == Replace(cs, n, [cs[n] EXCEPT !.pc = "exStuck"])

\* the promise of startup.exit() resolves in call n: a startup() goes on to
\* its spawn step, a plain startup.exit() call is over
Settle(cs, n) ==
  IF cs[n].kind = "startup"
  THEN Replace(cs, n, [cs[n] EXCEPT !.pc = "exSettled"])
  ELSE RemoveAt(cs, n)

\* ---------------------------------------------------------------- initial state
NoReload == [held |-> FALSE, heldAtGrant |-> FALSE, did |-> "none",
             began |-> 0, sent |-> 0]
NoChildExit == [code |-> NullCode, listening |-> FALSE]
NoSpawn == [prev |-> NoChild, prevAlive |-> FALSE, prevKills |-> 0,
            prevStops |-> 0, pc |-> "none"]
NoKill == [prev |-> NoChild, target |-> NoChild, result |-> "none"]
NoHook == [last |-> 0, out |-> "none", result |-> "none"]

Init ==
  /\ optionsArray \in UNION {[1 .. n -> [onstart : BOOLEAN]] : n \in 1 .. MaxEntries}
  /\ treeKillInstalled \in BOOLEAN
  /\ listening = FALSE
  /\ envUrl = FALSE
  /\ watching = {}
  /\ entryCount = 0
  /\ closeBundleCount = 0
  /\ electronApp = NoChild
  /\ child = <<>>
  /\ hookedProcessExit = FALSE
  /\ exitHooks = 0
  /\ hostExit = NotExited
  /\ calls = <<>>
  /\ started = 0
  /\ events = 0
  /\ caps = [startup |-> FALSE, reload |-> {}]
  /\ wsSent = 0
  /\ advisories = 0
  /\ hist = [fired |-> FALSE, reactions |-> 0, auto |-> FALSE, reloads |-> 0,
             reload |-> NoReload, childExit |-> NoChildExit,
             spawn |-> NoSpawn, kill |-> NoKill, hook |-> NoHook]

\* ---------------------------------------------------------------- the plugin
\* fault variant of AssignEnv: the URL is not published
AssignEnvSkipped(env) == env

\* lines 56-58: Object.assign(process.env, { VITE_DEV_SERVER_URL: ... })
AssignEnv(env) == TRUE

\* server.httpServer.once('listening', ...), lines 55-91: publish the URL,
\* compute entryCount, and per options push the ':startup' plugin and build()
Listening ==
  /\ ~listening /\ ~hostExited
  /\ listening' = TRUE
  /\ envUrl' = AssignEnv(envUrl)
  /\ entryCount' = calcEntryCount(optionsArray)
  /\ closeBundleCount' = 0
  /\ watching' = DOMAIN optionsArray
  /\ UNCHANGED <<optionsArray, treeKillInstalled, electronApp, child,
                 hookedProcessExit, exitHooks, hostExit, calls, started, events, caps,
                 wsSent, advisories, hist>>

\* fault variant of Saturated: the counter is compared before it is incremented
SaturatedPostIncrement(n, total) == ~(n - 1 < total)

\* fault variant of Saturated: the counter starts over after each cohort
SaturatedPerCohort(n, total) == n % total = 0

\* line 74: `if (++closeBundleCount < entryCount) return`, with n the
\* incremented counter: whether the hook goes on to the reaction
Saturated(n, total) == ~(n < total)

\* fault variant of ReloadFor: the test of line 79 is inverted
ReloadForInverted(app) == IF app # NoChild THEN "startup" ELSE "send"

\* lines 79-81: the reload handed to onstart is chosen when onstart is called
ReloadFor(app) == IF app # NoChild THEN "send" ELSE "startup"

\* a startup() call up to its first await (line 119)
StartupBegins ==
  /\ started' = started + 1
  /\ calls' = Put(calls, NewCall("startup"))

\* fault variant of Counted: the counter starts over after each cohort
CountedPerCohort(n) == IF n >= entryCount THEN 1 ELSE n + 1

\* line 74: `++closeBundleCount`
Counted(n) == n + 1

\* what the onstart of user code may do when it is called: return (a value
\* or a promise that resolves), throw, or return a promise that rejects
Outcomes == {"ok", "throws", "rejects"}

\* lines 76-85: how the closeBundle() call ends, by what its reaction did;
\* the value onstart or startup() returns is neither returned nor awaited
CloseBundleResult(out) == IF out = "throws" THEN "throws" ELSE "returns"

\* closeBundle() of the ':startup' plugin of optionsArray[i], lines 73-86,
\* `out` being what onstart does if this call invokes it
closeBundle(i, out) ==
  /\ i \in watching /\ ~hostExited
  /\ events < MaxEvents /\ events' = events + 1
  /\ closeBundleCount' = Counted(closeBundleCount)
  /\ IF ~Saturated(closeBundleCount', entryCount)
     THEN /\ out = "ok"
          /\ hist' = [hist EXCEPT !.fired = FALSE,
                        !.hook = [last |-> i, out |-> "none", result |-> "returns"]]
          /\ UNCHANGED <<calls, started, caps>>
     ELSE IF optionsArray[i].onstart
          THEN /\ caps' = [startup |-> TRUE,
                           reload |-> caps.reload \cup
                              {[kind |-> ReloadFor(electronApp),
                                heldAtGrant |-> electronApp # NoChild]}]
               /\ hist' = [hist EXCEPT !.fired = TRUE, !.reactions = @ + 1,
                             !.hook = [last |-> i, out |-> out,
                                       result |-> CloseBundleResult(out)]]
               /\ UNCHANGED <<calls, started>>
          ELSE /\ out = "ok"
               /\ StartupBegins
               /\ hist' = [hist EXCEPT !.fired = TRUE, !.reactions = @ + 1,
                                       !.auto = TRUE,
                             !.hook = [last |-> i, out |-> "none",
                                       result |-> "returns"]]
               /\ UNCHANGED caps
  /\ UNCHANGED <<optionsArray, treeKillInstalled, listening, envUrl, watching,
                 entryCount, electronApp, child, hookedProcessExit, exitHooks,
                 hostExit, wsSent, advisories>>

\* ---------------------------------------------------------------- user code
\* onstart's code calls the startup it was handed
UserStartup ==
  /\ caps.startup /\ ~hostExited
  /\ events < MaxEvents /\ events' = events + 1
  /\ StartupBegins
  /\ UNCHANGED <<optionsArray, treeKillInstalled, listening, envUrl, watching,
                 entryCount, closeBundleCount, electronApp, child,
                 hookedProcessExit, exitHooks, hostExit, caps, wsSent,
                 advisories, hist>>

Reloads == [kind : {"send", "startup"}, heldAtGrant : BOOLEAN]

\* onstart's code calls a reload it was handed: line 80 or line 81
UserReload(r) ==
  /\ r \in caps.reload /\ ~hostExited
  /\ events < MaxEvents /\ events' = events + 1
  /\ IF r.kind = "send"
     THEN /\ wsSent' = wsSent + 1
          /\ UNCHANGED <<calls, started>>
     ELSE /\ StartupBegins
          /\ UNCHANGED wsSent
  /\ hist' = [hist EXCEPT !.reloads = @ + 1,
                !.reload = [held |-> electronApp # NoChild,
                            heldAtGrant |-> r.heldAtGrant,
                            did |-> r.kind,
                            began |-> started' - started,
                            sent |-> wsSent' - wsSent]]
  /\ UNCHANGED <<optionsArray, treeKillInstalled, listening, envUrl, watching,
                 entryCount, closeBundleCount, electronApp, child,
                 hookedProcessExit, exitHooks, hostExit, caps, advisories>>

\* user code calls startup.exit(): lines 143-150
UserExit ==
  /\ listening /\ ~hostExited
  /\ events < MaxEvents /\ events' = events + 1
  /\ started' = started + 1
  /\ calls' = LET k == ExitSyncCall(NewCall("exit"))
              IN  IF k.pc = "exSettled" THEN calls ELSE Put(calls, k)
  /\ child' = ExitSyncChild
  /\ UNCHANGED <<optionsArray, treeKillInstalled, listening, envUrl, watching,
                 entryCount, closeBundleCount, electronApp, hookedProcessExit,
                 exitHooks, hostExit, caps, wsSent, advisories, hist>>

\* ---------------------------------------------------------------- startup()
PcOf(n) == IF n \in DOMAIN calls THEN calls[n].pc ELSE "none"

\* lines 119-124: the two awaited imports resolve (nothing of the program's
\* state is read or written between them), then startup.exit() is called and
\* the call is suspended at `await startup.exit()`
ImportsResolve(n) ==
  /\ PcOf(n) = "imports" /\ ~hostExited
  /\ calls' = Replace(calls, n, ExitSyncCall(calls[n]))
  /\ child' = ExitSyncChild
  /\ UNCHANGED <<optionsArray, treeKillInstalled, listening, envUrl, watching,
                 entryCount, closeBundleCount, electronApp, hookedProcessExit,
                 exitHooks, hostExit, started, events, caps, wsSent, advisories, hist>>

\* fault variant of ShouldHook: the latch is not consulted
ShouldHookAlways == TRUE

\* line 132: whether this startup() installs the host 'exit' handler
ShouldHook == ~hookedProcessExit

\* lines 127 and 130: the spawned child, with process.exit on its 'exit'
NewChild == [alive |-> TRUE, listeners |-> TRUE, signalled |-> FALSE,
             kills |-> 0, stops |-> 0]

\* fault variant of ExitAwaited: startup.exit() is called but not awaited
ExitNotAwaited(k) == k.pc \in {"exImport", "exKilling", "exSettled"}

\* line 124: the spawn step runs when `await startup.exit()` has resolved
ExitAwaited(k) == k.pc = "exSettled"

\* lines 127-139: spawn, mount on process.electronApp, listen for the child's
\* exit, install the host 'exit' handler once
Spawn(n) ==
  /\ n \in DOMAIN calls /\ calls[n].kind = "startup" /\ ExitAwaited(calls[n])
  /\ ~hostExited
  /\ Len(child) < MaxChildren
  /\ child' = Append(child, NewChild)
  /\ electronApp' = Len(child) + 1
  /\ IF ShouldHook
     THEN hookedProcessExit' = TRUE /\ exitHooks' = exitHooks + 1
     ELSE UNCHANGED <<hookedProcessExit, exitHooks>>
  /\ calls' = RemoveAt(calls, n)
  /\ hist' = [hist EXCEPT !.spawn =
       LET p == calls[n].prev
       IN  IF p = NoChild THEN [NoSpawn EXCEPT !.pc = calls[n].pc]
           ELSE [prev |-> p, prevAlive |-> child[p].alive,
                 prevKills |-> child[p].kills, prevStops |-> child[p].stops,
                 pc |-> calls[n].pc]]
  /\ UNCHANGED <<optionsArray, treeKillInstalled, listening, envUrl, watching,
                 entryCount, closeBundleCount, hostExit, started, events, caps, wsSent,
                 advisories>>

\* ---------------------------------------------------------------- startup.exit()
\* lines 156-168 with e.code = 'ERR_MODULE_NOT_FOUND': import('tree-kill')
\* rejects, the advisory is logged, process.electronApp.kill(), resolve(e)
TreeKillMissing(n) ==
  /\ PcOf(n) = "exImport" /\ ~hostExited
  /\ ~treeKillInstalled
  /\ advisories' = advisories + 1
  /\ child' = DirectKill(child, electronApp)
  /\ calls' = Settle(calls, n)
  /\ hist' = [hist EXCEPT !.kill = [prev |-> calls[n].prev, target |-> electronApp,
                                     result |-> "signalled"]]
  /\ UNCHANGED <<optionsArray, treeKillInstalled, listening, envUrl, watching,
                 entryCount, closeBundleCount, electronApp, hookedProcessExit,
                 exitHooks, hostExit, started, events, caps, wsSent>>

\* lines 151-155: import('tree-kill') resolves and m.default is called with
\* the pid process.electronApp has now
TreeKillCalled(n) ==
  /\ PcOf(n) = "exImport" /\ ~hostExited
  /\ treeKillInstalled
  /\ calls' = Replace(calls, n, [calls[n] EXCEPT !.pc = "exKilling",
                                                !.target = electronApp])
  /\ hist' = [hist EXCEPT !.kill = [prev |-> calls[n].prev, target |-> electronApp,
                                     result |-> "pending"]]
  /\ UNCHANGED <<optionsArray, treeKillInstalled, listening, envUrl, watching,
                 entryCount, closeBundleCount, electronApp, child,
                 hookedProcessExit, exitHooks, hostExit, started, events, caps, wsSent,
                 advisories>>

\* lines 151-168: m.default(...) throws; the catch logs the error with
\* console.error, process.electronApp.kill(), resolve(e)
TreeKillThrows(n) ==
  /\ PcOf(n) = "exImport" /\ ~hostExited
  /\ treeKillInstalled
  /\ child' = DirectKill(child, electronApp)
  /\ calls' = Settle(calls, n)
  /\ hist' = [hist EXCEPT !.kill = [prev |-> calls[n].prev, target |-> electronApp,
                                     result |-> "signalled"]]
  /\ UNCHANGED <<optionsArray, treeKillInstalled, listening, envUrl, watching,
                 entryCount, closeBundleCount, electronApp, hookedProcessExit,
                 exitHooks, hostExit, started, events, caps, wsSent, advisories>>

\* the 'exit' event of child c with `code`, ch being the children after its
\* death: the listener of line 130, if still on the handle, is process.exit
ExitEvent(ch, c, code) ==
  IF child[c].alive /\ child[c].listeners
  THEN /\ hostExit' = ProcessExit(code)
       /\ child' = ExitHandler(ch)
  ELSE /\ hostExit' = hostExit
       /\ child' = ch

\* tree-kill calls back (line 154, resolve): either it has killed the
\* process of the pid it was given, or it reports an error and has not
TreeKillDone(n, ok) ==
  /\ PcOf(n) = "exKilling" /\ ~hostExited
  /\ calls' = Settle(calls, n)
  /\ IF ok
     THEN ExitEvent(SigKill(child, calls[n].target), calls[n].target, NullCode)
     ELSE /\ child' = [child EXCEPT ![calls[n].target].kills = @ + 1]
          /\ UNCHANGED hostExit
  /\ hist' = [hist EXCEPT !.kill = [prev |-> calls[n].prev,
                                     target |-> calls[n].target,
                                     result |-> IF ok THEN "killed" ELSE "error"]]
  /\ UNCHANGED <<optionsArray, treeKillInstalled, listening, envUrl, watching,
                 entryCount, closeBundleCount, electronApp, hookedProcessExit,
                 exitHooks, started, events, caps, wsSent, advisories>>

\* ---------------------------------------------------------------- environment
\* a child process ends: by itself with an exit code, or of the SIGTERM it
\* was sent (code null)
ChildExits(c, code) ==
  /\ c \in DOMAIN child /\ child[c].alive /\ ~hostExited
  /\ code = NullCode => child[c].signalled
  /\ ExitEvent([child EXCEPT ![c].alive = FALSE, ![c].listeners = FALSE], c, code)
  /\ hist' = IF c = electronApp /\ code # NullCode
             THEN [hist EXCEPT !.childExit =
                     [code |-> code, listening |-> child[c].listeners]]
             ELSE hist
  /\ UNCHANGED <<optionsArray, treeKillInstalled, listening, envUrl, watching,
                 entryCount, closeBundleCount, electronApp, hookedProcessExit,
                 exitHooks, calls, started, events, caps, wsSent, advisories>>

\* the host process exits for a reason of its own (process.exit() elsewhere,
\* the dev server closing): its 'exit' handlers run
HostExits ==
  /\ ~hostExited
  /\ hostExit' = HostOwnCode
  /\ child' = ExitHandler(child)
  /\ UNCHANGED <<optionsArray, treeKillInstalled, listening, envUrl, watching,
                 entryCount, closeBundleCount, electronApp, hookedProcessExit,
                 exitHooks, calls, started, events, caps, wsSent, advisories, hist>>

\* ---------------------------------------------------------------- specification
Next ==
  \/ Listening
  \/ \E i \in 1 .. MaxEntries, out \in Outcomes : closeBundle(i, out)
  \/ UserStartup
  \/ \E r \in Reloads : UserReload(r)
  \/ UserExit
  \/ \E n \in Slots : ImportsResolve(n)
  \/ \E n \in Slots : Spawn(n)
  \/ \E n \in Slots : TreeKillMissing(n)
  \/ \E n \in Slots : TreeKillCalled(n)
  \/ \E n \in Slots : TreeKillThrows(n)
  \/ \E n \in Slots, ok \in BOOLEAN : TreeKillDone(n, ok)
  \/ \E c \in Children, code \in ExitCodes \cup {NullCode} : ChildExits(c, code)
  \/ HostExits

Spec == Init /\ [][Next]_vars

\* The event loop runs every continuation that is ready: an import() that has
\* been requested resolves or rejects, tree-kill calls back, and a startup()
\* whose await has resolved goes on.  Nothing obliges the bundler, user code,
\* the children or the host to act.
Fairness ==
  /\ WF_vars(\E n \in Slots : ImportsResolve(n))
  /\ WF_vars(\E n \in Slots : TreeKillMissing(n))
  /\ WF_vars(\E n \in Slots : TreeKillCalled(n) \/ TreeKillThrows(n))
  /\ WF_vars(\E n \in Slots, ok \in BOOLEAN : TreeKillDone(n, ok))
  /\ WF_vars(\E n \in Slots : Spawn(n))

LiveSpec == Spec /\ Fairness

\* ================================================================ properties

\* ---------------------------------------------------------------- C1
\* C1 as stated: the k-th completion of a session invokes the reaction if
\* and only if k is a positive multiple of the entry count.
C1_OncePerCohort ==
  closeBundleCount > 0 =>
    (hist.fired <=> closeBundleCount % entryCount = 0)

\* C1, amended: the k-th completion invokes the reaction if and only if
\* k >= entryCount; the counter is never reset, so from the entryCount-th
\* completion on every completion invokes the reaction once.
C1_EveryCompletionFromNth ==
  /\ closeBundleCount > 0 => (hist.fired <=> closeBundleCount >= entryCount)
  /\ hist.reactions = IF closeBundleCount >= entryCount /\ listening
                      THEN closeBundleCount - entryCount + 1 ELSE 0

C1_Witness ==
  /\ entryCount >= 2
  /\ closeBundleCount = entryCount + 1
  /\ hist.fired /\ hist.reactions = 2

\* ---------------------------------------------------------------- C2
\* C2: no two spawned children are alive at the same time, and a child that
\* is alive is the handle held in process.electronApp.
C2_AtMostOneLive ==
  /\ Cardinality({c \in DOMAIN child : child[c].alive}) <= 1
  /\ \A c \in DOMAIN child : child[c].alive => c = electronApp

\* ---------------------------------------------------------------- C3
\* the state right after the spawn step of the session's second call, which
\* found the child of the first call held: startup(), then startup() again,
\* and no other startup() or startup.exit() call
Restarted == /\ started = 2 /\ calls = <<>> /\ Len(child) = 2
             /\ hist.spawn.prev # NoChild

\* C3 as stated: in a restart the first child has had exactly one kill
\* request and is terminated before the second child is spawned.
C3_TerminatedBeforeSpawn ==
  Restarted => hist.spawn.prevKills = 1 /\ ~hist.spawn.prevAlive

\* C3, amended: in a restart the first child has had exactly one kill request
\* (tree-kill, or the direct kill() of the catch branch) before the second
\* child is spawned, and the spawn step never runs before that call's
\* startup.exit() has settled; the first child is terminated before the spawn
\* when tree-kill reported success, but may still be alive at the spawn when
\* only kill() was sent or tree-kill reported an error.
C3_OneKillBeforeSpawn ==
  /\ Restarted =>
       /\ hist.spawn.prevKills = 1
       /\ hist.spawn.prevStops = 1
       /\ hist.kill.result \in {"killed", "error", "signalled"}
       /\ hist.kill.result = "killed" => ~hist.spawn.prevAlive
  /\ hist.spawn.pc \in {"none", "exSettled"}

C3_Witness ==
  Restarted /\ hist.kill.result = "killed" /\ hist.spawn.prevKills = 1
            /\ ~hist.spawn.prevAlive /\ child[2].alive

\* ---------------------------------------------------------------- C4
\* C4: when the host process has exited, a held child that is still alive
\* has been sent a termination signal.
C4_NoUnsignalledOrphan ==
  (hostExited /\ electronApp # NoChild /\ child[electronApp].alive)
    => child[electronApp].signalled

\* ---------------------------------------------------------------- C5
\* C5 as stated: when the held child has exited on its own with code c, the
\* host process has exited with code c.
C5_HostMirrorsChild ==
  hist.childExit # NoChildExit => hostExit = hist.childExit.code

\* C5, amended: when the held child exits on its own with code c while the
\* 'exit' listener of line 130 is still on its handle (no startup.exit() has
\* reached line 147 for it since it was spawned), the host process exits with
\* code c; once startup.exit() has removed the listeners, the child's own
\* exit does not end the host.
C5_HostMirrorsListenedChild ==
  hist.childExit.listening => hostExit = hist.childExit.code

C5_Witness == hist.childExit.listening /\ hist.childExit.code = 7 /\ hostExit = 7

C7_NoAutoStartWithOnstart ==
  (\E i \in DOMAIN optionsArray : optionsArray[i].onstart) => ~hist.auto

\* ---------------------------------------------------------------- C8
\* one startup() has settled and then k startup.exit() calls were made on its
\* child, one after the other or overlapping, and all have settled
Stopped(k) == /\ ~hostExited /\ calls = <<>> /\ Len(child) = 1
              /\ started = k + 1 /\ child[1].stops = k

\* what startup.exit() leaves behind, by the outcome of its latest kill
StoppedState ==
  /\ electronApp = 1
  /\ ~child[1].listeners
  /\ hookedProcessExit /\ exitHooks = 1
  /\ hist.kill.result \in {"killed", "error", "signalled"}
  /\ hist.kill.result = "killed" => ~child[1].alive
  /\ hist.kill.result = "signalled" => child[1].signalled \/ ~child[1].alive

\* C8: after one settled startup(), two startup.exit() calls both settle and
\* leave the held handle, the child's liveness, the listeners on the handle
\* and the exit-hook latch as one call leaves them.
C8_ExitTwiceAsOnce == \A k \in {1, 2} : Stopped(k) => StoppedState

C8_Witness == Stopped(2) /\ StoppedState /\ child[1].kills = 2

\* ---------------------------------------------------------------- C9
\* C9: a startup.exit() call made while no child is held (directly, or as
\* line 124 of startup()) resolves at once and changes nothing: no kill, no
\* listener removed, no advisory, process.electronApp and the latch as before.
C9_ExitWithoutChildIsNoop ==
  [][(electronApp = NoChild /\ (UserExit \/ \E n \in Slots : ImportsResolve(n)))
       => /\ UNCHANGED <<child, advisories, electronApp, hookedProcessExit,
                         exitHooks, hostExit, wsSent, hist>>
          /\ Len(calls') = Len(calls)
          /\ UserExit => calls' = calls
          /\ \A n \in DOMAIN calls' : calls'[n].pc \in {"imports", "exSettled"}
    ]_vars

C9_Witness == /\ started = 2 /\ calls = <<>>
              /\ electronApp = NoChild /\ child = <<>> /\ advisories = 0

\* ---------------------------------------------------------------- C10
\* C10: the host 'exit' handler is installed at most once, and
\* startup.hookedProcessExit is true exactly when it has been installed.
C10_HookedOnce ==
  /\ exitHooks <= 1
  /\ hookedProcessExit <=> exitHooks = 1

C10_Witness == exitHooks = 1 /\ Len(child) = 2 /\ hookedProcessExit

\* ---------------------------------------------------------------- C11
\* C11: in the first cycle of a session with N entries (the first N
\* completions), none of the first N-1 completions invokes the reaction or
\* leaves anything of it behind (no capability handed out, no startup() call,
\* no child), and the N-th completion invokes it, once, whichever entry it
\* comes from.
C11_FirstCycle ==
  (closeBundleCount \in 1 .. entryCount) =>
    /\ hist.fired <=> closeBundleCount = entryCount
    /\ hist.reactions = IF closeBundleCount = entryCount THEN 1 ELSE 0
    /\ closeBundleCount < entryCount =>
         /\ caps = [startup |-> FALSE, reload |-> {}]
         /\ calls = <<>> /\ child = <<>>

C11_Witness ==
  /\ entryCount = 2 /\ closeBundleCount = 2
  /\ hist.fired /\ hist.reactions = 1 /\ hist.hook.last = 1

\* ---------------------------------------------------------------- C12
\* the calls whose startup.exit() promise is pending
Settling == {n \in DOMAIN calls : calls[n].pc \notin {"imports", "exSettled"}}

\* the startup() calls that have called startup.exit() and not yet spawned
StartupsWaiting ==
  {n \in DOMAIN calls : calls[n].kind = "startup" /\ calls[n].pc # "imports"}

\* C12: while the host process runs, every pending startup.exit() promise
\* settles (tree-kill succeeding, reporting an error, throwing or missing),
\* and every startup() that has called startup.exit() reaches its spawn step
\* (as long as the session may spawn another child).
C12_ExitSettles ==
  /\ (Settling # {}) ~> (hostExited \/ Settling = {})
  /\ (StartupsWaiting # {}) ~>
       (hostExited \/ Len(child) = MaxChildren \/ StartupsWaiting = {})

\* a restart whose termination failed has spawned all the same
C12_Witness ==
  /\ Restarted /\ hist.kill.result = "error"
  /\ hist.spawn.prevAlive /\ child[1].alive /\ child[2].alive

\* ---------------------------------------------------------------- C13
\* C13 as stated: when tree-kill is not installed, once a startup.exit() call
\* has settled the child that was held when it was called is not alive.
C13_DeadOnceSettled ==
  (~treeKillInstalled /\ hist.kill.result = "signalled")
    => ~child[hist.kill.prev].alive

\* C13, amended: when tree-kill is not installed, the step in which a
\* startup.exit() call on a held child settles logs the advisory and sends
\* exactly one kill() to the handle process.electronApp holds at that moment
\* (the child held when the call began, unless a spawn step ran in between),
\* before it settles; that child has then been signalled if it was alive, but
\* it may still be alive; the child held when the call began has had its
\* listeners removed.
C13_FallbackKillSent ==
  [][\A n \in Slots : TreeKillMissing(n) =>
       /\ child'[electronApp].kills = child[electronApp].kills + 1
       /\ child[electronApp].alive =>
            child'[electronApp].signalled /\ child'[electronApp].alive
       /\ \A c \in DOMAIN child \ {electronApp} : child'[c] = child[c]
       /\ ~child'[calls[n].prev].listeners
       /\ Cardinality(Settling') = Cardinality(Settling) - 1
       /\ advisories' = advisories + 1
       /\ UNCHANGED <<electronApp, hostExit>>
    ]_vars

C13_Witness ==
  /\ ~treeKillInstalled /\ hist.kill.result = "signalled" /\ calls = <<>>
  /\ hist.kill.prev = electronApp /\ hist.kill.target = electronApp
  /\ child[electronApp].alive /\ child[electronApp].signalled
  /\ child[electronApp].kills = 1 /\ advisories = 1

\* ---------------------------------------------------------------- C14
\* C14: the advisory recommending tree-kill is logged at most once in the
\* lifetime of the host process.
C14_AdvisoryOnce == advisories <= 1

\* ---------------------------------------------------------------- C15
\* C15: once a startup.exit() call has settled on the held child, no child
\* is held: process.electronApp is never a handle on which the latest
\* startup.exit() has settled.
C15_IdleAfterExit ==
  electronApp # NoChild =>
    ~(/\ hist.kill.target = electronApp
      /\ hist.kill.result \in {"killed", "error", "signalled"})

\* ---------------------------------------------------------------- C16
\* C16: when the onstart invoked by a closeBundle call throws or returns a
\* promise that rejects, that closeBundle call does not complete normally.
C16_FailureReachesCaller ==
  hist.hook.out \in {"throws", "rejects"} => hist.hook.result # "returns"

\* ---------------------------------------------------------------- C17
\* C17: the death of a child by a kill of startup.exit() (tree-kill reporting
\* success, or the child ending of the SIGTERM of the fallback) never makes
\* the host process exit.
C17_ExitNeverEndsHost ==
  [][((\E n \in Slots : TreeKillDone(n, TRUE))
        \/ (\E c \in Children : ChildExits(c, NullCode)))
       => UNCHANGED hostExit]_vars

\* ---------------------------------------------------------------- C18
\* C18 as stated: 0 <= closeBundleCount <= entryCount in every state.
C18_CountWithinEntries == 0 <= closeBundleCount /\ closeBundleCount <= entryCount

\* C18, amended: 0 <= closeBundleCount in every state, and the counter is
\* never reset or decreased in a session: every closeBundle call adds exactly
\* one and nothing else changes it, so it exceeds entryCount from the first
\* completion after the first cycle on.
C18_CountOnlyGrows ==
  /\ [](0 <= closeBundleCount)
  /\ [][IF \E i \in 1 .. MaxEntries, out \in Outcomes : closeBundle(i, out)
        THEN closeBundleCount' = closeBundleCount + 1
        ELSE closeBundleCount' = closeBundleCount]_vars

C18_Witness == entryCount = 1 /\ closeBundleCount = 3 /\ events = 3

\* ---------------------------------------------------------------- C19
\* C19: every kill of a startup.exit() call, by tree-kill or by the fallback
\* kill(), targets the child that was held when the call began.
C19_KillsHeldAtCall ==
  hist.kill.result # "none" => hist.kill.target = hist.kill.prev

\* ---------------------------------------------------------------- C20
\* C20: VITE_DEV_SERVER_URL is published before any entry build is started,
\* hence before any completion is counted, any reaction runs, any startup()
\* is called and any child is spawned by the plugin.
C20_UrlBeforeBuilds ==
  (\/ watching # {} \/ closeBundleCount > 0 \/ hist.reactions > 0
   \/ started > 0 \/ child # <<>> \/ caps.startup)
    => envUrl

C20_Witness ==
  /\ envUrl /\ watching = DOMAIN optionsArray /\ closeBundleCount > 0
  /\ child # <<>> /\ child[1].alive

====
